---- MODULE Spec2Model ----
(***************************************************************************)
(* A model of the mp-coro lazy task engine: task<T> (task.h), the          *)
(* synchronized_task (bits/synchronized_task.h), sync_await                *)
(* (sync_await.h) and the async thread shim (cpp-coro/async.h).            *)
(*                                                                         *)
(* One run of the model is one full expression                             *)
(*     sync_await(make_task(make_task(... LEAF ...)))                      *)
(* evaluated by the thread "main".  LEAF is a coroutine foo() that returns *)
(* a value or throws, a coroutine bar() that creates a local task          *)
(* f = foo() and co_awaits it some number of times (the example of         *)
(* task.h:50-57), or an async(func) object whose work runs on the thread   *)
(* "worker".  A fourth leaf, seq(), creates several local tasks and         *)
(* co_awaits them one after another.  Coroutine frames are numbered: 0 is  *)
(* the synchronized task, 1..d are the make_task wrappers, d+1 is foo, bar *)
(* or seq, and the frames after it are the local tasks of bar or seq.      *)
(* The caller may move the outermost task from object to object before    *)
(* the call, and bar may take its first result with co_await std::move(f). *)
(***************************************************************************)
EXTENDS Integers, Sequences, FiniteSets, TLC

\* ------------------------------------------------------------------ bounds
MaxDepth == 2
MaxAwaits == 2
MaxMoves == 2
NumValues == 2
NumErrors == 1

Frames == 0..(MaxDepth + 1 + MaxAwaits)
Root == 0
Noop == -1          \* std::noop_coroutine(), also "no frame"
Async == -2         \* the awaited object is an async<Func>, not a task
Void == 0           \* the value of a task<void>
Values == 1..NumValues
Errors == 1..NumErrors
Threads == {"main", "worker"}

VARIABLES
    kind,           \* frame -> "none" | "sync" | "make_task" | "foo" | "bar" | "seq"
    child,          \* frame -> the frame (or Async) its body co_awaits, or Noop
    plan,           \* how many co_awaits the body of bar or seq makes
    awaited,        \* how many of those co_awaits have completed
    st,             \* frame -> "absent" | "initial" | "running" | "suspended" | "final" | "destroyed"
    bpc,            \* frame -> position in its body
    slot,           \* frame -> the promise's result storage
    continuation,   \* frame -> promise_type::continuation
    sync,           \* synchronized_task::promise_type::sync: "null" | "work_done"
    workDone,       \* sync_await's local  sync work_done: "none" | "alive" | "destroyed"
    sem,            \* work_done.sem's counter
    pc,             \* thread -> position in native code
    cur,            \* thread -> the frame it is executing, or Noop
    asyncResult,    \* async::result_
    asyncHandle,    \* the handle captured by async's work lambda
    result,         \* what sync_await gave its caller
    starts,         \* frame -> how many times its body was entered
    observed,       \* frame -> how many times its result was retrieved
    lastObs,        \* frame -> what the last retrieval yielded
    rethrows,       \* frame -> how many retrievals rethrew its error
    notified,       \* calls of notify_awaitable_completed()
    waiter,         \* frame T -> the frame that suspended in await_suspend on T
    suspends,       \* frame T -> how many times a coroutine suspended on T
    handoffs,       \* frame T -> how many times T's final_awaiter resumed a coroutine
    target,         \* frame T -> the handle T's final_awaiter returned last
    bodyOutcome,    \* frame -> what its body returned or raised
    origin,         \* what the leaf computation (foo's body, or func_) produced
    ub,             \* the undefined behaviour the run has hit
    depth,          \* thread -> nested native resume() activations on its stack
    promise_,       \* frame -> the promise_ members of the task objects made for it, in order
    destroys,       \* frame -> how many times destroy() was called on it
    rv,             \* whether bar's first co_await is  co_await std::move(f)
    firstObs,       \* frame -> what the first retrieval yielded
    consumed,       \* frame -> its value was retrieved as an rvalue and moved out
    contWrites,     \* frame -> how many times its continuation field was assigned
    asyncResumes,   \* calls of handle.resume() by async's work lambda
    funcOn          \* the thread that ran func_

frameVars == <<kind, child, plan, awaited, st, bpc, slot, continuation>>
syncVars == <<sync, workDone, sem>>
threadVars == <<pc, cur>>
asyncVars == <<asyncResult, asyncHandle>>
ghostVars == <<starts, observed, lastObs, rethrows, notified, waiter, suspends,
               handoffs, target, bodyOutcome, origin>>
extVars == <<depth, promise_, destroys, rv, firstObs, consumed, contWrites, asyncResumes, funcOn>>
vars == <<frameVars, syncVars, threadVars, asyncVars, result, ghostVars, ub, extVars>>

\* ------------------------------------------------- result slot (storage)
\* The value-or-error container of bits/task_promise_storage.h and
\* cpp-coro/bits/storage.h.
Empty == [kind |-> "empty", val |-> 0]
set_value(v) == [kind |-> "value", val |-> v]
set_exception(e) == [kind |-> "error", val |-> e]
Outcomes == {set_value(v) : v \in Values} \cup {set_exception(e) : e \in Errors}

\* What a retrieval gives: the value, the rethrown error, or (on a slot that
\* was never filled) nothing defined.
NoResult == [kind |-> "none", val |-> 0]
storage_get(s) ==
    IF s.kind = "value" THEN [kind |-> "returns", val |-> s.val]
    ELSE IF s.kind = "error" THEN [kind |-> "throws", val |-> s.val]
    ELSE [kind |-> "undefined", val |-> 0]

\* Leaving a body by an exception: promise.unhandled_exception() keeps it.
unhandled_exception(e) == set_exception(e)

\* ------------------------------------------------------- the library code
\* task::promise_type::initial_suspend and
\* synchronized_task::promise_type::initial_suspend.
task_initial_suspend_never == "suspend_never"
task_initial_suspend == "suspend_always"
sync_initial_suspend == "suspend_always"

\* The state of a frame when its coroutine function returns the task object.
CreatedState(initial) == IF initial = "suspend_always" THEN "initial" ELSE "running"
CreatedStarts(initial) == IF initial = "suspend_always" THEN 0 ELSE 1

\* task::awaiter::await_ready: handle.done().
task_await_ready_always(p) == TRUE
task_await_ready_never(p) == FALSE
task_await_ready(p) == st[p] = "final"

\* task::awaiter::await_suspend(h) for the task p: the continuation it
\* stores and the handle it returns for symmetric transfer.
task_await_suspend_self(p, h) == [continuation |-> h, next |-> h]
task_await_suspend_forget(p, h) == [continuation |-> continuation[p], next |-> p]
task_await_suspend(p, h) == [continuation |-> h, next |-> p]

\* task::awaiter::await_resume: promise.get().
task_await_resume_stale(p) ==
    IF slot[p].kind = "value" THEN [kind |-> "returns", val |-> Void]
    ELSE storage_get(slot[p])
task_await_resume_swallow(p) ==
    IF slot[p].kind = "error" THEN [kind |-> "returns", val |-> Void]
    ELSE storage_get(slot[p])
task_await_resume(p) == storage_get(slot[p])

\* What a result slot s holds once its value was handed out as T && and the
\* receiver moved it away: a valid value of the type, not a particular one.
\* An error is rethrown, never moved; task<void> has no rvalue overload.
MovedFrom(s) ==
    IF s.kind = "value" /\ s.val # Void THEN {set_value(w) : w \in Values} ELSE {s}

\* What the slot s may hold after co_await on an lvalue task (await_resume
\* is promise.get()) and after co_await on an rvalue task (rvalue_awaiter's
\* await_resume is std::move(promise).get(), a T &&).
task_await_resume_leaves_moved(s) == MovedFrom(s)
task_await_resume_leaves(s) == {s}
task_rvalue_await_resume_leaves(s) == MovedFrom(s)

\* task::promise_type::final_awaiter::await_suspend: the handle returned.
task_final_await_suspend_noop(p) == Noop
task_final_await_suspend(p) == continuation[p]

\* How control reaches the handle chosen by task::awaiter::await_suspend and
\* by task's final_awaiter::await_suspend: both return the handle (symmetric
\* transfer); an await_suspend returning void would call resume() on it, a
\* nested native call.
task_await_suspend_returns_void == "void"
task_await_suspend_returns == "handle"
task_final_await_suspend_returns_void == "void"
task_final_await_suspend_returns == "handle"
Nesting(returns) == IF returns = "handle" THEN 0 ELSE 1

\* Moving an owning pointer p (promise_ptr's move constructor): what the
\* moved-from pointer and the new pointer hold afterwards.
promise_ptr_move(p) == [from |-> Noop, to |-> p]

\* task(task &&) = default: promise_ is moved member-wise.
task_move_copy(p) == [from |-> p, to |-> p]
task_move(p) == promise_ptr_move(p)

\* The body of make_task and of make_synchronized_task,
\*     co_return co_await std::forward<A>(awaitable);
\* given what the co_await expression yielded: what ends up in the slot.
co_return_co_await(r) ==
    IF r.kind = "returns" THEN set_value(r.val) ELSE unhandled_exception(r.val)
make_task(r) == co_return_co_await(r)
make_synchronized_task_drop(r) ==
    IF r.kind = "returns" THEN set_value(r.val) ELSE set_value(Void)
make_synchronized_task(r) == co_return_co_await(r)

\* synchronized_task::promise_type::final_awaiter::await_suspend: whether it
\* calls sync->notify_awaitable_completed().
sync_final_await_suspend_silent == FALSE
sync_final_await_suspend == TRUE

\* sync_await's sync::notify_awaitable_completed: sem.release() on a counter.
notify_awaitable_completed_lost(s) == s
notify_awaitable_completed(s) == s + 1

\* synchronized_task::get: promise_->get().
synchronized_task_get(p) == storage_get(slot[p])

\* async's work lambda: try { result_.set_value(func_()); }
\* catch (...) { result_.set_exception(std::current_exception()); }
\* given what func_ did.
async_work_uncaught(o) == IF o.kind = "value" THEN set_value(o.val) ELSE Empty
async_work(o) == IF o.kind = "value" THEN set_value(o.val) ELSE set_exception(o.val)

\* async: await_ready, and await_resume's std::move(result_).get().
async_await_ready == FALSE
async_await_resume == storage_get(asyncResult)

\* ------------------------------------------------------------------- Init
Init ==
    /\ kind = [f \in Frames |-> "none"]
    /\ child = [f \in Frames |-> Noop]
    /\ plan = 0
    /\ awaited = 0
    /\ st = [f \in Frames |-> "absent"]
    /\ bpc = [f \in Frames |-> "begin"]
    /\ slot = [f \in Frames |-> Empty]
    /\ continuation = [f \in Frames |-> Noop]
    /\ sync = "null"
    /\ workDone = "none"
    /\ sem = 0
    /\ pc = [t \in Threads |-> IF t = "main" THEN "expr" ELSE "unborn"]
    /\ cur = [t \in Threads |-> Noop]
    /\ asyncResult = Empty
    /\ asyncHandle = Noop
    /\ result = NoResult
    /\ starts = [f \in Frames |-> 0]
    /\ observed = [f \in Frames |-> 0]
    /\ lastObs = [f \in Frames |-> NoResult]
    /\ rethrows = [f \in Frames |-> 0]
    /\ notified = 0
    /\ waiter = [f \in Frames |-> Noop]
    /\ suspends = [f \in Frames |-> 0]
    /\ handoffs = [f \in Frames |-> 0]
    /\ target = [f \in Frames |-> Noop]
    /\ bodyOutcome = [f \in Frames |-> Empty]
    /\ origin = Empty
    /\ ub = {}
    /\ depth = [t \in Threads |-> 0]
    /\ promise_ = [f \in Frames |-> << >>]
    /\ destroys = [f \in Frames |-> 0]
    /\ rv = FALSE
    /\ firstObs = [f \in Frames |-> NoResult]
    /\ consumed = [f \in Frames |-> FALSE]
    /\ contWrites = [f \in Frames |-> 0]
    /\ asyncResumes = 0
    /\ funcOn = "none"

\* ----------------------------------------------------- control transfer
\* Thread t hands control to the handle h (coroutine_handle::resume, or the
\* handle an await_suspend returned), the frames being in states s.
\* The no-op coroutine returns at once to whoever called resume(); resuming
\* a frame that is not suspended is undefined.
TransferTo(t, h, s) ==
    IF h = Noop
    THEN /\ st' = s
         /\ pc' = [pc EXCEPT ![t] = "returning"]
         /\ cur' = [cur EXCEPT ![t] = Noop]
         /\ UNCHANGED <<starts, ub>>
    ELSE IF s[h] \in {"initial", "suspended"}
    THEN /\ st' = [s EXCEPT ![h] = "running"]
         /\ pc' = [pc EXCEPT ![t] = "coro"]
         /\ cur' = [cur EXCEPT ![t] = h]
         /\ starts' = [starts EXCEPT ![h] = @ + (IF s[h] = "initial" THEN 1 ELSE 0)]
         /\ UNCHANGED ub
    ELSE /\ st' = s
         /\ pc' = [pc EXCEPT ![t] = "crashed"]
         /\ cur' = [cur EXCEPT ![t] = Noop]
         /\ ub' = ub \cup {"resume_not_suspended"}
                       \cup (IF s[h] = "final" THEN {"resume_done"} ELSE {})
         /\ UNCHANGED starts

\* The task objects that hold frame f: promise_ points to its promise.
Owners(f) == Cardinality({i \in 1..Len(promise_[f]) : promise_[f][i] = f})

\* Destroying the frames of the set D (promise_ptr's deleter): defined only
\* for a frame suspended at its initial or final suspension point.
DestroyAll(D, s) ==
    [f \in Frames |-> IF f \in D /\ s[f] # "absent" /\ Owners(f) >= 1 THEN "destroyed"
                      ELSE s[f]]
DestroyUB(D, s) ==
    IF \E f \in D : s[f] \in {"running", "suspended"} /\ Owners(f) >= 1 THEN {"destroy_live"}
    ELSE IF \E f \in D : (s[f] = "destroyed" /\ Owners(f) >= 1) \/ Owners(f) > 1
    THEN {"double_destroy"}
    ELSE {}

\* The task objects made for the frames of D go out of scope: ~task() runs
\* promise_'s deleter, and every object that holds a frame destroys it.
Destroy(D) ==
    /\ st' = DestroyAll(D, st)
    /\ ub' = ub \cup DestroyUB(D, st)
    /\ destroys' = [f \in Frames |-> destroys[f] + (IF f \in D THEN Owners(f) ELSE 0)]
    /\ promise_' = [f \in Frames |-> IF f \in D THEN [i \in 1..Len(promise_[f]) |-> Noop]
                                      ELSE promise_[f]]

\* The local task objects of the body of frame b: bar's f, seq's t1..tn.
LocalsOf(b) ==
    IF kind[b] = "bar" THEN {b + 1}
    ELSE IF kind[b] = "seq" THEN (b + 1)..(b + plan)
    ELSE {}

\* Whether the co_await expression at which the body of frame f stands
\* takes its operand as an rvalue: make_task and make_synchronized_task
\* co_await std::forward<A>(awaitable), bar may co_await std::move(f) first.
Moving(f) ==
    IF kind[f] \in {"make_task", "sync"} THEN TRUE
    ELSE IF kind[f] = "bar" THEN rv /\ awaited = 0
    ELSE FALSE

\* What the slot of the awaited frame c may hold after the co_await in f.
Leaves(f, c) ==
    IF Moving(f) THEN task_rvalue_await_resume_leaves(slot[c])
    ELSE task_await_resume_leaves(slot[c])

\* The co_await in f hands out the value of c as an rvalue.
Consumes(f, c) == c \in Frames /\ Moving(f) /\ slot[c].kind = "value" /\ slot[c].val # Void

\* What a body that ends with the result r of its co_await has produced.
Produced(r) == IF r.kind = "returns" THEN set_value(r.val) ELSE set_exception(r.val)

\* The retrieval r of the result of frame c, as the history records it.
Retrieved(c, r) ==
    /\ observed' = [observed EXCEPT ![c] = @ + 1]
    /\ lastObs' = [lastObs EXCEPT ![c] = r]
    /\ rethrows' = [rethrows EXCEPT ![c] = @ + (IF r.kind = "throws" THEN 1 ELSE 0)]
    /\ firstObs' = [firstObs EXCEPT ![c] = IF observed[c] = 0 THEN r ELSE @]

\* Thread t is executing the body of frame f.
Executing(t, f) == pc[t] = "coro" /\ cur[t] = f /\ f \in Frames /\ st[f] = "running"

\* --------------------------------------------------- the caller: main
\* The awaitable expression: d nested make_task calls around a leaf.  Every
\* coroutine function allocates its frame and returns at initial_suspend.
MakeAwaitable ==
    /\ pc["main"] = "expr"
    /\ \E d \in 0..MaxDepth, leaf \in {"foo", "bar", "seq", "async"}, n \in 0..MaxAwaits :
        /\ leaf \notin {"bar", "seq"} => n = 0
        /\ kind' = [f \in Frames |->
                      IF f >= 1 /\ f <= d THEN "make_task"
                      ELSE IF f = d + 1 /\ leaf # "async" THEN leaf
                      ELSE "none"]
        /\ child' = [f \in Frames |->
                      IF f >= 1 /\ f < d THEN f + 1
                      ELSE IF f >= 1 /\ f = d THEN (IF leaf = "async" THEN Async ELSE d + 1)
                      ELSE IF f = d + 1 /\ leaf \in {"bar", "seq"} THEN d + 2
                      ELSE Noop]
        /\ plan' = n
        /\ st' = [f \in Frames |->
                      IF (f >= 1 /\ f <= d) \/ (f = d + 1 /\ leaf # "async")
                      THEN CreatedState(task_initial_suspend) ELSE st[f]]
        /\ starts' = [f \in Frames |->
                      IF (f >= 1 /\ f <= d) \/ (f = d + 1 /\ leaf # "async")
                      THEN CreatedStarts(task_initial_suspend) ELSE starts[f]]
    /\ pc' = [pc EXCEPT !["main"] = "call"]
    /\ UNCHANGED <<awaited, bpc, slot, continuation, syncVars, cur, asyncVars, result,
                   observed, lastObs, rethrows, notified, waiter, suspends, handoffs,
                   target, bodyOutcome, origin, ub>>
    /\ UNCHANGED depth
    /\ promise_' = [f \in Frames |-> IF kind'[f] # "none" THEN <<f>> ELSE promise_[f]]
    /\ UNCHANGED destroys
    /\ rv' \in (IF \E f \in Frames : kind'[f] = "bar" THEN BOOLEAN ELSE {FALSE})
    /\ UNCHANGED <<firstObs, consumed, contWrites, asyncResumes, funcOn>>

\* The caller moves the task it is about to hand to sync_await into a new
\* task object, task b(std::move(a)), from any of the objects made so far.
MoveTask ==
    /\ pc["main"] = "call"
    /\ kind[1] # "none"
    /\ Len(promise_[1]) <= MaxMoves
    /\ \E i \in 1..Len(promise_[1]) :
        LET r == task_move(promise_[1][i]) IN
            promise_' = [promise_ EXCEPT ![1] = Append([@ EXCEPT ![i] = r.from], r.to)]
    /\ UNCHANGED <<frameVars, syncVars, threadVars, asyncVars, result, ghostVars, ub>>
    /\ UNCHANGED <<depth, destroys, rv, firstObs,
                   consumed, contWrites, asyncResumes, funcOn>>

\* sync_await: sync_task = make_synchronized_task<sync>(awaitable); sync work_done;
MakeSynchronizedTask ==
    /\ pc["main"] = "call"
    /\ kind' = [kind EXCEPT ![Root] = "sync"]
    /\ child' = [child EXCEPT ![Root] = IF kind[1] = "none" THEN Async ELSE 1]
    /\ st' = [st EXCEPT ![Root] = CreatedState(sync_initial_suspend)]
    /\ starts' = [starts EXCEPT ![Root] = CreatedStarts(sync_initial_suspend)]
    /\ workDone' = "alive"
    /\ sem' = 0
    /\ pc' = [pc EXCEPT !["main"] = "start"]
    /\ UNCHANGED <<plan, awaited, bpc, slot, continuation, sync, cur, asyncVars, result,
                   observed, lastObs, rethrows, notified, waiter, suspends, handoffs,
                   target, bodyOutcome, origin, ub>>
    /\ UNCHANGED depth
    /\ promise_' = [promise_ EXCEPT ![Root] = <<Root>>]
    /\ UNCHANGED <<destroys, rv, firstObs, consumed, contWrites, asyncResumes, funcOn>>

\* synchronized_task::start(s): promise_->sync = &s; handle.resume();
start ==
    /\ pc["main"] = "start"
    /\ sync' = "work_done"
    /\ TransferTo("main", Root, st)
    /\ UNCHANGED <<kind, child, plan, awaited, bpc, slot, continuation, workDone, sem,
                   asyncVars, result, observed, lastObs, rethrows, notified, waiter,
                   suspends, handoffs, target, bodyOutcome, origin>>
    /\ depth' = [depth EXCEPT !["main"] = @ + 1]
    /\ UNCHANGED <<promise_, destroys, rv, firstObs,
                   consumed, contWrites, asyncResumes, funcOn>>

\* work_done.sem.acquire(): blocks while the counter is 0.
AcquireNoWait ==
    /\ pc["main"] = "acquire"
    /\ sem' = IF sem > 0 THEN sem - 1 ELSE sem
    /\ pc' = [pc EXCEPT !["main"] = "get"]
    /\ UNCHANGED <<frameVars, sync, workDone, cur, asyncVars, result, ghostVars, ub>>
    /\ UNCHANGED extVars
Acquire ==
    /\ pc["main"] = "acquire"
    /\ sem > 0
    /\ sem' = sem - 1
    /\ pc' = [pc EXCEPT !["main"] = "get"]
    /\ UNCHANGED <<frameVars, sync, workDone, cur, asyncVars, result, ghostVars, ub>>
    /\ UNCHANGED extVars

\* return sync_task.get();
Get ==
    /\ pc["main"] = "get"
    /\ LET r == synchronized_task_get(Root) IN
        /\ result' = r
        /\ Retrieved(Root, r)
        /\ ub' = IF r.kind = "undefined" THEN ub \cup {"empty_get"} ELSE ub
    /\ pc' = [pc EXCEPT !["main"] = "destroy_sync"]
    /\ UNCHANGED <<frameVars, syncVars, cur, asyncVars, starts, notified, waiter,
                   suspends, handoffs, target, bodyOutcome, origin>>
    /\ UNCHANGED <<depth, promise_, destroys, rv,
                   consumed, contWrites, asyncResumes, funcOn>>

\* Leaving sync_await (by return or by the rethrown error): work_done, the
\* later local, is destroyed first, then sync_task with its frame.
DestroySync ==
    /\ pc["main"] = "destroy_sync"
    /\ workDone' = "destroyed"
    /\ pc' = [pc EXCEPT !["main"] = "destroy_task"]
    /\ UNCHANGED <<frameVars, sync, sem, cur, asyncVars, result, ghostVars, ub>>
    /\ UNCHANGED extVars

DestroyTask ==
    /\ pc["main"] = "destroy_task"
    /\ Destroy({Root})
    /\ pc' = [pc EXCEPT !["main"] = "cleanup"]
    /\ UNCHANGED <<kind, child, plan, awaited, bpc, slot, continuation, syncVars, cur,
                   asyncVars, result, ghostVars>>
    /\ UNCHANGED <<depth, rv, firstObs, consumed, contWrites, asyncResumes, funcOn>>

\* The end of the full expression: the temporary task objects of the
\* awaitable expression are destroyed, each destroying its frame.
Cleanup ==
    /\ pc["main"] = "cleanup"
    /\ LET D == {f \in Frames : /\ f >= 1
                                  /\ kind[f] # "none"
                                  /\ ~ \E b \in Frames : f \in LocalsOf(b)} IN
        Destroy(D)
    /\ pc' = [pc EXCEPT !["main"] = "done"]
    /\ UNCHANGED <<kind, child, plan, awaited, bpc, slot, continuation, syncVars, cur,
                   asyncVars, result, ghostVars>>
    /\ UNCHANGED <<depth, rv, firstObs, consumed, contWrites, asyncResumes, funcOn>>

\* ------------------------------------------------------ coroutine bodies
\* task<T> foo() { co_return v; }  or a body that throws e.
FooBody(t) ==
    \E f \in Frames :
        /\ Executing(t, f) /\ kind[f] = "foo" /\ bpc[f] = "begin"
        /\ \E o \in Outcomes :
            /\ slot' = [slot EXCEPT ![f] = IF o.kind = "value" THEN set_value(o.val)
                                           ELSE unhandled_exception(o.val)]
            /\ bodyOutcome' = [bodyOutcome EXCEPT ![f] = o]
            /\ origin' = o
        /\ bpc' = [bpc EXCEPT ![f] = "final"]
        /\ UNCHANGED <<kind, child, plan, awaited, st, continuation, syncVars, threadVars,
                       asyncVars, result, starts, observed, lastObs, rethrows, notified,
                       waiter, suspends, handoffs, target, ub>>
        /\ UNCHANGED extVars

\* make_task / make_synchronized_task: the body is entered.
WrapBegin(t) ==
    \E f \in Frames :
        /\ Executing(t, f) /\ kind[f] \in {"make_task", "sync"} /\ bpc[f] = "begin"
        /\ bpc' = [bpc EXCEPT ![f] = "await"]
        /\ UNCHANGED <<kind, child, plan, awaited, st, slot, continuation, syncVars,
                       threadVars, asyncVars, result, ghostVars, ub>>
        /\ UNCHANGED extVars

\* task<> bar() { task<> f = foo(); ...
BarBegin(t) ==
    \E f \in Frames :
        /\ Executing(t, f) /\ kind[f] = "bar" /\ bpc[f] = "begin"
        /\ LET g == child[f] IN
            /\ kind' = [kind EXCEPT ![g] = "foo"]
            /\ st' = [st EXCEPT ![g] = CreatedState(task_initial_suspend)]
            /\ starts' = [starts EXCEPT ![g] = CreatedStarts(task_initial_suspend)]
        /\ bpc' = [bpc EXCEPT ![f] = IF plan > 0 THEN "await" ELSE "return"]
        /\ UNCHANGED <<child, plan, awaited, slot, continuation, syncVars, threadVars,
                       asyncVars, result, observed, lastObs, rethrows, notified, waiter,
                       suspends, handoffs, target, bodyOutcome, origin, ub>>
        /\ UNCHANGED depth
        /\ promise_' = [promise_ EXCEPT ![child[f]] = <<child[f]>>]
        /\ UNCHANGED <<destroys, rv, firstObs, consumed, contWrites, asyncResumes, funcOn>>

\* co_await on a task that is done: await_ready is true, no suspension.
AwaitReady(t) ==
    \E f \in Frames :
        /\ Executing(t, f) /\ bpc[f] = "await" /\ child[f] \in Frames
        /\ task_await_ready(child[f])
        /\ bpc' = [bpc EXCEPT ![f] = "resume"]
        /\ UNCHANGED <<kind, child, plan, awaited, st, slot, continuation, syncVars,
                       threadVars, asyncVars, result, ghostVars, ub>>
        /\ UNCHANGED extVars

\* co_await on a task that is not done: the frame f suspends, await_suspend
\* stores the continuation and control goes to the handle it returns.
AwaitSuspend(t) ==
    \E f \in Frames :
        /\ Executing(t, f) /\ bpc[f] = "await" /\ child[f] \in Frames
        /\ ~ task_await_ready(child[f])
        /\ LET c == child[f]
               eff == task_await_suspend(c, f) IN
            /\ continuation' = [continuation EXCEPT ![c] = eff.continuation]
            /\ waiter' = [waiter EXCEPT ![c] = f]
            /\ suspends' = [suspends EXCEPT ![c] = @ + 1]
            /\ TransferTo(t, eff.next, [st EXCEPT ![f] = "suspended"])
        /\ bpc' = [bpc EXCEPT ![f] = "resume"]
        /\ UNCHANGED <<kind, child, plan, awaited, slot, syncVars, asyncVars, result,
                       observed, lastObs, rethrows, notified, handoffs, target,
                       bodyOutcome, origin>>
        /\ depth' = [depth EXCEPT ![t] = @ + Nesting(task_await_suspend_returns)]
        /\ UNCHANGED <<promise_, destroys, rv, firstObs, consumed>>
        /\ contWrites' = [contWrites EXCEPT ![child[f]] = @ + 1]
        /\ UNCHANGED <<asyncResumes, funcOn>>

\* co_await on an async: always suspends; await_suspend spawns a detached
\* thread that holds the handle, and returns to whoever resumed the frame.
AsyncAwaitSuspend(t) ==
    \E f \in Frames :
        /\ Executing(t, f) /\ bpc[f] = "await" /\ child[f] = Async
        /\ ~ async_await_ready
        /\ st' = [st EXCEPT ![f] = "suspended"]
        /\ bpc' = [bpc EXCEPT ![f] = "resume"]
        /\ asyncHandle' = f
        /\ pc' = [pc EXCEPT ![t] = "returning", !["worker"] = "work"]
        /\ cur' = [cur EXCEPT ![t] = Noop]
        /\ UNCHANGED <<kind, child, plan, awaited, slot, continuation, syncVars,
                       asyncResult, result, ghostVars, ub>>
        /\ UNCHANGED extVars

\* The resumed body of make_task / make_synchronized_task: await_resume, then
\* co_return of the value, or the error leaves the body.
WrapResume(t) ==
    \E f \in Frames :
        /\ Executing(t, f) /\ kind[f] \in {"make_task", "sync"} /\ bpc[f] = "resume"
        /\ LET c == child[f]
               r == IF c = Async THEN async_await_resume ELSE task_await_resume(c) IN
            /\ IF c = Async THEN UNCHANGED <<observed, lastObs, rethrows, firstObs>>
                            ELSE Retrieved(c, r)
            /\ IF r.kind = "undefined"
               THEN /\ ub' = ub \cup {"empty_get"}
                    /\ pc' = [pc EXCEPT ![t] = "crashed"]
                    /\ cur' = [cur EXCEPT ![t] = Noop]
                    /\ UNCHANGED <<slot, bodyOutcome, bpc>>
               ELSE /\ \E left \in (IF c = Async THEN {Empty} ELSE Leaves(f, c)) :
                        slot' = [g \in Frames |->
                                    IF g = f THEN (IF kind[f] = "sync"
                                                   THEN make_synchronized_task(r)
                                                   ELSE make_task(r))
                                    ELSE IF g = c THEN left
                                    ELSE slot[g]]
                    /\ bodyOutcome' = [bodyOutcome EXCEPT ![f] = Produced(r)]
                    /\ bpc' = [bpc EXCEPT ![f] = "final"]
                    /\ UNCHANGED <<pc, cur, ub>>
        /\ UNCHANGED <<kind, child, plan, awaited, st, continuation, syncVars, asyncVars,
                       result, starts, notified, waiter, suspends, handoffs, target,
                       origin>>
        /\ UNCHANGED <<depth, promise_, destroys, rv>>
        /\ consumed' = [g \in Frames |-> consumed[g] \/ (g = child[f] /\ Consumes(f, child[f]))]
        /\ UNCHANGED <<contWrites, asyncResumes, funcOn>>

\* bar after a co_await f: the value is dropped and the body goes on; an
\* error leaves the body, destroying the local f on the way.
BarResume(t) ==
    \E f \in Frames :
        /\ Executing(t, f) /\ kind[f] = "bar" /\ bpc[f] = "resume"
        /\ LET c == child[f]
               r == task_await_resume(c) IN
            /\ Retrieved(c, r)
            /\ IF r.kind = "undefined"
               THEN /\ ub' = ub \cup {"empty_get"}
                    /\ pc' = [pc EXCEPT ![t] = "crashed"]
                    /\ cur' = [cur EXCEPT ![t] = Noop]
                    /\ UNCHANGED <<slot, bodyOutcome, bpc, awaited, st, promise_, destroys>>
               ELSE IF r.kind = "returns"
               THEN /\ awaited' = awaited + 1
                    /\ bpc' = [bpc EXCEPT ![f] = IF awaited + 1 < plan THEN "await"
                                                  ELSE "return"]
                    /\ \E left \in Leaves(f, c) : slot' = [slot EXCEPT ![c] = left]
                    /\ UNCHANGED <<bodyOutcome, st, pc, cur, ub, promise_, destroys>>
               ELSE /\ slot' = [slot EXCEPT ![f] = unhandled_exception(r.val)]
                    /\ bodyOutcome' = [bodyOutcome EXCEPT ![f] = set_exception(r.val)]
                    /\ Destroy({c})
                    /\ bpc' = [bpc EXCEPT ![f] = "final"]
                    /\ UNCHANGED <<awaited, pc, cur>>
        /\ UNCHANGED <<kind, child, plan, continuation, syncVars, asyncVars, result,
                       starts, notified, waiter, suspends, handoffs, target, origin>>
        /\ UNCHANGED <<depth, rv>>
        /\ consumed' = [g \in Frames |-> consumed[g] \/ (g = child[f] /\ Consumes(f, child[f]))]
        /\ UNCHANGED <<contWrites, asyncResumes, funcOn>>

\* ... co_return; }  return_void(), then f.~task().
BarReturn(t) ==
    \E f \in Frames :
        /\ Executing(t, f) /\ kind[f] = "bar" /\ bpc[f] = "return"
        /\ slot' = [slot EXCEPT ![f] = set_value(Void)]
        /\ bodyOutcome' = [bodyOutcome EXCEPT ![f] = set_value(Void)]
        /\ Destroy({child[f]})
        /\ bpc' = [bpc EXCEPT ![f] = "final"]
        /\ UNCHANGED <<kind, child, plan, awaited, continuation, syncVars, threadVars,
                       asyncVars, result, starts, observed, lastObs, rethrows, notified,
                       waiter, suspends, handoffs, target, origin>>
        /\ UNCHANGED <<depth, rv, firstObs, consumed, contWrites, asyncResumes, funcOn>>

\* task<> seq() { task<> t1 = foo(), ..., tn = foo(); ...
SeqBegin(t) ==
    \E f \in Frames :
        /\ Executing(t, f) /\ kind[f] = "seq" /\ bpc[f] = "begin"
        /\ kind' = [g \in Frames |-> IF g \in LocalsOf(f) THEN "foo" ELSE kind[g]]
        /\ st' = [g \in Frames |-> IF g \in LocalsOf(f)
                                   THEN CreatedState(task_initial_suspend) ELSE st[g]]
        /\ starts' = [g \in Frames |-> IF g \in LocalsOf(f)
                                       THEN CreatedStarts(task_initial_suspend)
                                       ELSE starts[g]]
        /\ bpc' = [bpc EXCEPT ![f] = IF plan > 0 THEN "await" ELSE "return"]
        /\ UNCHANGED <<child, plan, awaited, slot, continuation, syncVars, threadVars,
                       asyncVars, result, observed, lastObs, rethrows, notified, waiter,
                       suspends, handoffs, target, bodyOutcome, origin, ub>>
        /\ UNCHANGED depth
        /\ promise_' = [g \in Frames |-> IF g \in LocalsOf(f) THEN <<g>> ELSE promise_[g]]
        /\ UNCHANGED <<destroys, rv, firstObs, consumed, contWrites, asyncResumes, funcOn>>

\* seq after co_await ti: the body goes on to co_await the next task; an
\* error leaves the body, destroying the locals on the way.
SeqResume(t) ==
    \E f \in Frames :
        /\ Executing(t, f) /\ kind[f] = "seq" /\ bpc[f] = "resume"
        /\ LET c == child[f]
               r == task_await_resume(c) IN
            /\ Retrieved(c, r)
            /\ IF r.kind = "undefined"
               THEN /\ ub' = ub \cup {"empty_get"}
                    /\ pc' = [pc EXCEPT ![t] = "crashed"]
                    /\ cur' = [cur EXCEPT ![t] = Noop]
                    /\ UNCHANGED <<slot, bodyOutcome, bpc, awaited, st, child, promise_, destroys>>
               ELSE IF r.kind = "returns"
               THEN /\ awaited' = awaited + 1
                    /\ child' = [child EXCEPT ![f] = IF awaited + 1 < plan THEN c + 1 ELSE c]
                    /\ bpc' = [bpc EXCEPT ![f] = IF awaited + 1 < plan THEN "await"
                                                  ELSE "return"]
                    /\ \E left \in Leaves(f, c) : slot' = [slot EXCEPT ![c] = left]
                    /\ UNCHANGED <<bodyOutcome, st, pc, cur, ub, promise_, destroys>>
               ELSE /\ slot' = [slot EXCEPT ![f] = unhandled_exception(r.val)]
                    /\ bodyOutcome' = [bodyOutcome EXCEPT ![f] = set_exception(r.val)]
                    /\ Destroy(LocalsOf(f))
                    /\ bpc' = [bpc EXCEPT ![f] = "final"]
                    /\ UNCHANGED <<awaited, pc, cur, child>>
        /\ UNCHANGED <<kind, plan, continuation, syncVars, asyncVars, result,
                       starts, notified, waiter, suspends, handoffs, target, origin>>
        /\ UNCHANGED <<depth, rv, consumed, contWrites, asyncResumes, funcOn>>

\* ... co_return; }  return_void(), then the locals are destroyed.
SeqReturn(t) ==
    \E f \in Frames :
        /\ Executing(t, f) /\ kind[f] = "seq" /\ bpc[f] = "return"
        /\ slot' = [slot EXCEPT ![f] = set_value(Void)]
        /\ bodyOutcome' = [bodyOutcome EXCEPT ![f] = set_value(Void)]
        /\ Destroy(LocalsOf(f))
        /\ bpc' = [bpc EXCEPT ![f] = "final"]
        /\ UNCHANGED <<kind, child, plan, awaited, continuation, syncVars, threadVars,
                       asyncVars, result, starts, observed, lastObs, rethrows, notified,
                       waiter, suspends, handoffs, target, origin>>
        /\ UNCHANGED <<depth, rv, firstObs, consumed, contWrites, asyncResumes, funcOn>>

\* co_await final_suspend() of a task: the frame is done, and its
\* final_awaiter hands control to the handle await_suspend returns.
TaskFinalSuspend(t) ==
    \E f \in Frames :
        /\ Executing(t, f) /\ kind[f] \in {"make_task", "foo", "bar", "seq"} /\ bpc[f] = "final"
        /\ LET h == task_final_await_suspend(f) IN
            /\ target' = [target EXCEPT ![f] = h]
            /\ handoffs' = [handoffs EXCEPT ![f] = @ + (IF h # Noop THEN 1 ELSE 0)]
            /\ TransferTo(t, h, [st EXCEPT ![f] = "final"])
        /\ bpc' = [bpc EXCEPT ![f] = "done"]
        /\ UNCHANGED <<kind, child, plan, awaited, slot, continuation, syncVars, asyncVars,
                       result, observed, lastObs, rethrows, notified, waiter, suspends,
                       bodyOutcome, origin>>
        /\ depth' = [depth EXCEPT ![t] = @ + (IF task_final_await_suspend(f) = Noop THEN 0 ELSE Nesting(task_final_await_suspend_returns))]
        /\ UNCHANGED <<promise_, destroys, rv, firstObs,
                       consumed, contWrites, asyncResumes, funcOn>>

\* co_await final_suspend() of the synchronized task: the frame is done and
\* the thread is inside final_awaiter::await_suspend.
SyncFinalSuspend(t) ==
    \E f \in Frames :
        /\ Executing(t, f) /\ kind[f] = "sync" /\ bpc[f] = "final"
        /\ st' = [st EXCEPT ![f] = "final"]
        /\ bpc' = [bpc EXCEPT ![f] = "done"]
        /\ pc' = [pc EXCEPT ![t] = IF sync_final_await_suspend THEN "notify"
                                    ELSE "returning"]
        /\ cur' = [cur EXCEPT ![t] = Noop]
        /\ UNCHANGED <<kind, child, plan, awaited, slot, continuation, syncVars, asyncVars,
                       result, ghostVars, ub>>
        /\ UNCHANGED extVars

\* this_coro.promise().sync->notify_awaitable_completed(): the call of
\* sem.release() raises the counter; the thread is then still inside release().
Notify(t) ==
    /\ pc[t] = "notify"
    /\ IF sync = "null" \/ workDone # "alive"
       THEN /\ ub' = ub \cup {IF sync = "null" THEN "null_sync" ELSE "dead_sync"}
            /\ pc' = [pc EXCEPT ![t] = "crashed"]
            /\ UNCHANGED <<sem, notified>>
       ELSE /\ sem' = notify_awaitable_completed(sem)
            /\ notified' = notified + 1
            /\ ub' = IF sem >= 1 THEN ub \cup {"sem_overflow"} ELSE ub
            /\ pc' = [pc EXCEPT ![t] = "releasing"]
    /\ UNCHANGED <<frameVars, sync, workDone, cur, asyncVars, result, starts, observed,
                   lastObs, rethrows, waiter, suspends, handoffs, target, bodyOutcome,
                   origin>>
    /\ UNCHANGED extVars

\* sem.release() wakes the waiter and returns, and with it
\* notify_awaitable_completed() and final_awaiter::await_suspend.  When
\* work_done was destroyed meanwhile, release() is running on a dead
\* semaphore: it may return as if nothing happened, or fault.
ReleaseReturn(t) ==
    /\ pc[t] = "releasing"
    /\ IF workDone = "alive"
       THEN /\ pc' = [pc EXCEPT ![t] = "returning"]
            /\ UNCHANGED ub
       ELSE /\ ub' = ub \cup {"release_on_dead_sync"}
            /\ \E next \in {"returning", "crashed"} : pc' = [pc EXCEPT ![t] = next]
    /\ UNCHANGED <<frameVars, syncVars, cur, asyncVars, result, ghostVars>>
    /\ UNCHANGED extVars

\* resume() returns to the native code that called it: start() in sync_await,
\* or the work lambda of async.
ReturnFromResume(t) ==
    /\ pc[t] = "returning"
    /\ pc' = [pc EXCEPT ![t] = IF t = "main" THEN "acquire" ELSE "exit"]
    /\ UNCHANGED <<frameVars, syncVars, cur, asyncVars, result, ghostVars, ub>>
    /\ depth' = [depth EXCEPT ![t] = @ - 1]
    /\ UNCHANGED <<promise_, destroys, rv, firstObs,
                   consumed, contWrites, asyncResumes, funcOn>>

\* ------------------------------------------------- the thread of async
\* work: result_.set_value(func_()), or result_.set_exception(...).
Work ==
    /\ pc["worker"] = "work"
    /\ \E o \in Outcomes :
        /\ asyncResult' = async_work(o)
        /\ origin' = o
    /\ pc' = [pc EXCEPT !["worker"] = "resume"]
    /\ UNCHANGED <<frameVars, syncVars, cur, asyncHandle, result, starts, observed,
                   lastObs, rethrows, notified, waiter, suspends, handoffs, target,
                   bodyOutcome, ub>>
    /\ UNCHANGED <<depth, promise_, destroys, rv,
                   firstObs, consumed, contWrites, asyncResumes>>
    /\ funcOn' = "worker"

\* work: handle.resume();
WorkerResume ==
    /\ pc["worker"] = "resume"
    /\ TransferTo("worker", asyncHandle, st)
    /\ UNCHANGED <<kind, child, plan, awaited, bpc, slot, continuation, syncVars,
                   asyncVars, result, observed, lastObs, rethrows, notified, waiter,
                   suspends, handoffs, target, bodyOutcome, origin>>
    /\ depth' = [depth EXCEPT !["worker"] = @ + 1]
    /\ UNCHANGED <<promise_, destroys, rv, firstObs, consumed, contWrites>>
    /\ asyncResumes' = asyncResumes + 1
    /\ UNCHANGED funcOn

\* The work lambda returns and the detached thread ends.
WorkerExit ==
    /\ pc["worker"] = "exit"
    /\ pc' = [pc EXCEPT !["worker"] = "gone"]
    /\ UNCHANGED <<frameVars, syncVars, cur, asyncVars, result, ghostVars, ub>>
    /\ UNCHANGED extVars

\* The frames whose body, result slot, continuation or promise the next
\* step of thread t executes, reads, writes or destroys.  A thread that is
\* returning from resume(), blocked in acquire() or inside sem.release()
\* touches none.
Touches(t) ==
    IF pc[t] = "coro"
    THEN LET f == cur[t] IN
            {f} \cup ({child[f], continuation[f]} \cap Frames) \cup LocalsOf(f)
    ELSE IF pc[t] \in {"start", "get", "destroy_task", "notify"} THEN {Root}
    ELSE IF pc[t] \in {"work", "resume"} THEN {asyncHandle} \cap Frames
    ELSE IF pc[t] = "cleanup" THEN {f \in Frames : f >= 1 /\ kind[f] # "none"}
    ELSE {}

\* ------------------------------------------------------ specification
Coroutine(t) ==
    \/ FooBody(t) \/ WrapBegin(t) \/ BarBegin(t)
    \/ AwaitReady(t) \/ AwaitSuspend(t) \/ AsyncAwaitSuspend(t)
    \/ WrapResume(t) \/ BarResume(t) \/ BarReturn(t)
    \/ SeqBegin(t) \/ SeqResume(t) \/ SeqReturn(t)
    \/ TaskFinalSuspend(t) \/ SyncFinalSuspend(t)
    \/ Notify(t) \/ ReleaseReturn(t) \/ ReturnFromResume(t)

Main ==
    \/ MakeAwaitable \/ MoveTask \/ MakeSynchronizedTask \/ start
    \/ Acquire \/ Get \/ DestroySync \/ DestroyTask \/ Cleanup
    \/ Coroutine("main")

Worker == Work \/ WorkerResume \/ WorkerExit \/ Coroutine("worker")

Next == Main \/ Worker

Spec == Init /\ [][Next]_vars

\* Both threads are scheduled by the operating system: neither waits forever
\* while it has a step to take.
LiveSpec == Spec /\ WF_vars(Main) /\ WF_vars(Worker)

\* The one undefined behaviour a run can hit: the notifier still inside
\* sem.release() when sync_await destroys work_done.
OnlyReleaseUB == ub \subseteq {"release_on_dead_sync"}

\* ------------------------------------------------------------ properties
Tasks == Frames \ {Root}
Populated(f) == slot[f].kind \in {"value", "error"}
Done(f) == st[f] \in {"final", "destroyed"} /\ bpc[f] = "done"

\* How a produced outcome looks to the one who retrieves it.
AsSeen(o) ==
    IF o.kind = "value" THEN [kind |-> "returns", val |-> o.val]
    ELSE IF o.kind = "error" THEN [kind |-> "throws", val |-> o.val]
    ELSE NoResult

\* What the awaitable handed to sync_await yields: the outcome of foo or of
\* func_, except that bar drops the values of its co_awaits and returns void.
Expected ==
    IF \E f \in Frames : kind[f] \in {"bar", "seq"}
    THEN (IF origin.kind = "error" THEN AsSeen(origin)
          ELSE [kind |-> "returns", val |-> Void])
    ELSE AsSeen(origin)

\* C1: sync_await gives its caller exactly the outcome of the awaitable: the
\* value it produces is returned, the error its body raises is rethrown
\* unchanged, through any number of nested tasks.
C1_SyncAwaitFidelity == result # NoResult => result = Expected

C1_Witness ==
    /\ pc["main"] = "done"
    /\ result.kind = "throws"
    /\ kind[2] = "make_task"
    /\ result = AsSeen(origin)

\* C2: once the synchronized task has reached its final suspension point,
\* sync_await eventually returns the awaitable's outcome, whichever of
\* sem.release() and sem.acquire() comes first.
C2_NoLostWakeup ==
    (bpc[Root] = "done") ~> (pc["main"] = "done" /\ result # NoResult /\ result = Expected)

\* The caller is blocked in acquire() and another thread is about to release.
C2_Witness ==
    /\ pc["main"] = "acquire"
    /\ sem = 0
    /\ pc["worker"] = "notify"

\* C3: sync_await reads the result and returns only after the sync object was
\* notified, the synchronized task's body having run to its end with the
\* result slot holding a value or an error.
C3_GetAfterNotify ==
    (pc["main"] \in {"get", "destroy_sync", "destroy_task", "cleanup", "done"}
        \/ result # NoResult)
    => /\ notified >= 1
       /\ bpc[Root] = "done"
       /\ Populated(Root)

\* The body completed on the other thread, and the caller is about to read.
C3_Witness ==
    /\ pc["main"] = "get"
    /\ pc["worker"] = "returning"
    /\ notified = 1

\* C4: notify_awaitable_completed() is called exactly once per started
\* synchronized task, at its final suspension point, with the result slot
\* filled: never earlier, never twice.
C4_NotifyOnce ==
    /\ notified <= 1
    /\ notified = 1 => (Done(Root) /\ Populated(Root))
    /\ (bpc[Root] = "done" /\ \A t \in Threads : pc[t] # "notify") => notified = 1

C4_Witness ==
    /\ notified = 1
    /\ st[Root] = "final"
    /\ slot[Root].kind = "error"

\* C5: a created coroutine runs no step of its body before it is co_awaited
\* (task) or started (synchronized_task); one destroyed without that has run
\* nothing.
C5_Lazy ==
    \A f \in Frames :
        /\ st[f] = "initial" => (starts[f] = 0 /\ slot[f] = Empty /\ bpc[f] = "begin")
        /\ starts[f] > 0 =>
            IF f = Root THEN pc["main"] \notin {"expr", "call", "start"}
            ELSE suspends[f] > 0

\* A task that was created and destroyed without ever being awaited.
C5_Witness ==
    \E f \in Tasks : st[f] = "destroyed" /\ suspends[f] = 0 /\ starts[f] = 0

\* C6: the body of a task runs exactly once, however many times the result
\* of the finished task is observed.
C6_SingleExecution ==
    \A f \in Frames :
        /\ starts[f] <= 1
        /\ observed[f] > 0 => starts[f] = 1
        /\ st[f] = "final" => starts[f] = 1

C6_Witness ==
    \E f \in Tasks : observed[f] >= 2 /\ starts[f] = 1

C9_ResumeAfterDone ==
    \A f \in Tasks :
        /\ (waiter[f] # Noop /\ ~ Done(f)) => st[waiter[f]] = "suspended"
        /\ handoffs[f] > 0 => (Done(f) /\ Populated(f))
        /\ observed[f] > 0 => (Done(f) /\ lastObs[f].kind # "undefined")

C9_Witness ==
    \E f \in Tasks : handoffs[f] = 1 /\ observed[f] = 1 /\ st[f] = "final"

\* C10: a coroutine that suspended in await_suspend on a task is resumed
\* exactly once on account of it, when the task's body has reached its end,
\* and the finished task resumes no other coroutine than its continuation.
C10_ExactlyOneHandoff ==
    \A f \in Tasks :
        /\ suspends[f] <= 1
        /\ handoffs[f] <= suspends[f]
        /\ handoffs[f] > 0 => (Done(f) /\ "resume_not_suspended" \notin ub)
        /\ bpc[f] = "done" => (handoffs[f] = suspends[f] /\ target[f] = waiter[f])

C10_Witness ==
    \E f \in Tasks :
        /\ handoffs[f] = 1
        /\ target[f] = waiter[f]
        /\ cur["worker"] = waiter[f]

\* C11: however many tasks a coroutine awaits one after another, and however
\* deep tasks are nested, no thread ever has more than one native resume()
\* activation on its stack: entering and leaving a task are symmetric
\* transfers.
C11_StackBounded == \A t \in Threads : depth[t] <= 1

\* seq has awaited all of its tasks, below the deepest nesting of make_task.
C11_Witness ==
    \E f \in Frames :
        /\ kind[f] = "seq" /\ f = MaxDepth + 1
        /\ awaited = MaxAwaits
        /\ cur["main"] = f
        /\ depth["main"] = 1

\* C12: a frame is destroyed only at its final suspension point or before it
\* was ever resumed, never while it runs or is suspended in its body.
C12_DestroyOnlySuspended ==
    /\ "destroy_live" \notin ub
    /\ \A f \in Frames : st[f] = "destroyed" =>
        \/ bpc[f] = "done"
        \/ (bpc[f] = "begin" /\ starts[f] = 0)

\* sync_task's frame is destroyed at the end of sync_await after its body
\* completed, together with a task that was created but never awaited.
C12_Witness ==
    /\ st[Root] = "destroyed"
    /\ bpc[Root] = "done"
    /\ \E f \in Tasks : st[f] = "destroyed" /\ starts[f] = 0 /\ bpc[f] = "begin"

\* C13: a frame never has two owning task objects, a moved-from task object
\* owns nothing, a live frame always has its owner, and when the caller is
\* through every frame that was created has been destroyed exactly once.
Live(f) == st[f] \in {"initial", "running", "suspended", "final"}

C13_UniqueOwnership ==
    /\ "double_destroy" \notin ub
    /\ \A f \in Frames :
        /\ Owners(f) <= 1
        /\ \A i \in 1..Len(promise_[f]) : promise_[f][i] \in {f, Noop}
        /\ Live(f) <=> Owners(f) = 1
        /\ destroys[f] = (IF st[f] = "destroyed" THEN 1 ELSE 0)
        /\ pc["main"] = "done" /\ kind[f] # "none" => st[f] = "destroyed"

\* The task handed to sync_await went through MaxMoves moves, one of them
\* from an object that was already moved from, and its frame was destroyed.
C13_Witness ==
    /\ pc["main"] = "done"
    /\ Len(promise_[1]) = MaxMoves + 1
    /\ destroys[1] = 1
    /\ \A f \in Frames : kind[f] # "none" => destroys[f] = 1
    /\ kind[2] # "none"

\* C14: a frame at its final suspension point is never resumed again: no
\* step takes it anywhere but to destruction, no step enters its body again,
\* and nothing calls resume() on it.
C14_DoneIsTerminal ==
    [][/\ "resume_done" \notin ub'
       /\ \A f \in Frames :
            st[f] = "final" =>
                /\ st'[f] \in {"final", "destroyed"}
                /\ starts'[f] = starts[f]
                /\ bpc'[f] = "done"
                /\ \A t \in Threads : cur'[t] # f]_vars

\* A task that is done was co_awaited again and again, and is still at its
\* final suspension point, its body entered once.
C14_Witness ==
    \E f \in Tasks :
        /\ st[f] = "final"
        /\ observed[f] = MaxAwaits
        /\ starts[f] = 1
        /\ suspends[f] = 1

\* C15 as stated: every co_await of a done task yields what the first one
\* yielded, whichever overload the first one went through.
C15_SameAsFirstObservation ==
    \A f \in Tasks : observed[f] >= 1 => lastObs[f] = firstObs[f]

\* C15: co_await on a task that is done does not suspend the awaiter and
\* leaves the stored continuation alone; it rethrows the same error as the
\* first observation, and yields the same value as long as no observation
\* went through the rvalue overload and moved the value away; after such a
\* one it still yields a value, the moved-from one.
C15_IdempotentObservation ==
    \A f \in Tasks :
        /\ (st[f] = "final" /\ \E g \in Frames : child[g] = f /\ bpc[g] = "await")
            => task_await_ready(f)
        /\ task_await_ready(f) <=> st[f] = "final"
        /\ observed[f] >= 1 =>
            /\ suspends[f] = 1
            /\ continuation[f] = waiter[f]
            /\ lastObs[f].kind = firstObs[f].kind
            /\ firstObs[f].kind = "throws" => lastObs[f] = firstObs[f]
            /\ ~ consumed[f] => lastObs[f] = firstObs[f]

\* bar took the value of f with co_await std::move(f) and then co_awaited
\* f again: the second co_await did not suspend and got another value.
C15_Witness ==
    \E f \in Tasks :
        /\ consumed[f]
        /\ observed[f] = 2
        /\ suspends[f] = 1
        /\ lastObs[f].kind = "returns"
        /\ lastObs[f] # firstObs[f]
        /\ st[f] = "final"

\* A thread is inside synchronized_task's final_awaiter::await_suspend: about
\* to call notify_awaitable_completed(), or inside sem.release() with the
\* counter already raised.
Notifying(t) == pc[t] \in {"notify", "releasing"}

\* C20: while a thread is inside final_awaiter::await_suspend or inside
\* notify_awaitable_completed()/sem.release(), sync_await has destroyed neither
\* work_done (the semaphore) nor the synchronized task's frame.
C20_NotifierSeesLiveSync ==
    \A t \in Threads :
        Notifying(t) => (workDone = "alive" /\ st[Root] # "destroyed")

\* The notifier is inside sem.release() and work_done is already destroyed.
C20_Witness ==
    /\ pc["worker"] = "releasing"
    /\ workDone = "destroyed"
    /\ st[Root] = "destroyed"
    /\ result # NoResult

\* C16: start() stores the address of the sync object before the first
\* resume, so whenever a thread is inside final_awaiter::await_suspend the
\* promise's sync pointer is set and the object it points to is alive.
C16_SyncSetAndAlive ==
    /\ starts[Root] > 0 => sync = "work_done"
    /\ \A t \in Threads : Notifying(t) => (sync # "null" /\ workDone # "destroyed")

\* The pointer is set, and final_awaiter::await_suspend is still running on
\* the worker after sync_await destroyed the object it points to.
C16_Witness ==
    /\ sync = "work_done"
    /\ Notifying("worker")
    /\ workDone = "destroyed"
    /\ pc["main"] = "done"

\* C17 as stated: in the life of every task its continuation field is
\* assigned exactly once.
C17_WrittenExactlyOnce ==
    \A f \in Tasks : st[f] = "destroyed" => contWrites[f] = 1

\* C17: a task's continuation field starts as the no-op handle and is
\* assigned at most once: by await_suspend, with the handle of the coroutine
\* that suspends on the task, in the step that enters the task's body; it is
\* assigned exactly once if the task is ever started and never if the task is
\* destroyed unawaited, and no later step changes it.
C17_ContinuationWrittenOnce ==
    /\ [](\A f \in Tasks :
            /\ contWrites[f] <= 1
            /\ contWrites[f] = (IF starts[f] > 0 THEN 1 ELSE 0)
            /\ contWrites[f] = 0 => continuation[f] = Noop
            /\ contWrites[f] = 1 => (continuation[f] \in Frames /\ continuation[f] = waiter[f]))
    /\ [][\A f \in Tasks :
            continuation'[f] # continuation[f] =>
                /\ continuation[f] = Noop
                /\ st[f] = "initial" /\ st'[f] = "running"
                /\ st[continuation'[f]] = "running" /\ st'[continuation'[f]] = "suspended"]_vars

\* One task was awaited, its continuation assigned once and left alone by a
\* second co_await; another was destroyed without ever being awaited.
C17_Witness ==
    \E f, g \in Tasks :
        /\ contWrites[f] = 1 /\ st[f] = "destroyed" /\ continuation[f] = waiter[f]
        /\ contWrites[g] = 0 /\ st[g] = "destroyed" /\ continuation[g] = Noop

\* C18: no frame is touched by two threads at a time: the thread that
\* started the synchronized task and got control back while another thread
\* runs the frames touches none of them before its acquire() has returned.
C18_OneThreadPerFrame ==
    /\ Touches("main") \cap Touches("worker") = {}
    /\ \A f \in Frames : Cardinality({t \in Threads : Executing(t, f)}) <= 1
    /\ pc["worker"] \in {"work", "resume", "coro", "notify"}
        => (pc["main"] \in {"returning", "acquire"} /\ sem = 0 /\ cur["main"] = Noop)

\* The spawned thread runs a coroutine body while the caller, back from
\* start(), is blocked in acquire().
C18_Witness ==
    /\ pc["worker"] = "coro"
    /\ Touches("worker") # {}
    /\ bpc[Root] = "resume"
    /\ pc["main"] = "acquire"
    /\ sem = 0

\* C19: co_await on an async always suspends; func_ runs on the spawned
\* thread and nowhere else; when the work lambda calls handle.resume(),
\* result_ already holds what func_ returned or threw; the awaiting
\* coroutine is resumed once, and it is the spawned thread that runs it.
C19_AsyncResumesOnceAfterStore ==
    /\ ~ async_await_ready
    /\ funcOn \in {"none", "worker"}
    /\ asyncResult # Empty => (funcOn = "worker" /\ asyncResult = origin)
    /\ asyncResumes <= 1
    /\ pc["worker"] = "unborn" <=> asyncHandle = Noop
    /\ pc["worker"] = "work" =>
        (asyncResumes = 0 /\ asyncResult = Empty /\ st[asyncHandle] = "suspended")
    /\ pc["worker"] = "resume" =>
        (asyncResumes = 0 /\ asyncResult \in Outcomes /\ st[asyncHandle] = "suspended")
    /\ pc["worker"] \notin {"unborn", "work", "resume"} =>
        (asyncResumes = 1 /\ asyncResult \in Outcomes)
    /\ asyncHandle # Noop =>
        /\ ~ Executing("main", asyncHandle)
        /\ bpc[asyncHandle] \in {"final", "done"} => bodyOutcome[asyncHandle] = asyncResult

\* func_ threw on the spawned thread; the error was stored, the coroutine
\* resumed once from that thread and got it rethrown from await_resume.
C19_Witness ==
    /\ asyncResumes = 1
    /\ funcOn = "worker"
    /\ asyncResult.kind = "error"
    /\ cur["worker"] = asyncHandle
    /\ bpc[asyncHandle] = "final"
    /\ bodyOutcome[asyncHandle] = asyncResult
====
